---- MODULE Spec2Model ----
(***************************************************************************)
(* Model of the open-source research pipeline: the three entry points      *)
(* (POST /analyze in api.py, the Streamlit form in app.py, the CLI in      *)
(* main.py), OpenSourceCrew construction, OpenSourceCrew.run with          *)
(* _execute_crew, the sequential three-task crew, and the string-based     *)
(* error classification done in crew.py and api.py.                        *)
(***************************************************************************)
EXTENDS Integers, Sequences, FiniteSets, TLC

(***************************************************************************)
(* Bounds of the model.                                                    *)
(***************************************************************************)
\* longest error message (in phrases) given to the three classifiers
MaxMsgLen == 2
\* longest error message (in phrases) an upstream failure of a run carries
MaxStubMsgLen == 1
\* largest number of consecutive failing executions the model stub scripts
MaxFails == 3
\* most whitespace characters in front of / behind a requirement text
MaxPad == 1
\* most entries in the "organic" list of a search response
MaxResults == 2

(***************************************************************************)
(* Program constants.                                                      *)
(***************************************************************************)
\* Field(min_length=10, max_length=2000) of business_requirement
MIN_LENGTH == 10
MAX_LENGTH == 2000

(***************************************************************************)
(* Texts.  A requirement text is described by the number of leading        *)
(* whitespace characters, the length of its core (which begins and ends    *)
(* with a non-whitespace character, or is empty) and the number of         *)
(* trailing whitespace characters.  A whitespace-only text has core 0 and  *)
(* all its characters counted as leading.                                  *)
(***************************************************************************)
CoreLengths == {0, MIN_LENGTH - 1, MIN_LENGTH, MAX_LENGTH, MAX_LENGTH + 1}

Texts == { t \in [lead : 0..(2 * MaxPad), core : CoreLengths, trail : 0..MaxPad] :
             /\ (t.core = 0 => t.trail = 0)
             /\ (t.core > 0 => t.lead <= MaxPad) }

\* len(s)
StrLen(t) == t.lead + t.core + t.trail

\* str.strip()
Strip(t) == [lead |-> 0, core |-> t.core, trail |-> 0]

\* "not v" for a string
IsEmptyStr(t) == StrLen(t) = 0

(***************************************************************************)
(* Error messages.  A message is a sequence of phrases; each phrase is one *)
(* word of the vocabularies the code searches for (or a word outside       *)
(* them), written either in lower case or not.                             *)
(***************************************************************************)
EXEC_TRANSIENT == {"overloaded", "unavailable", "503", "rate limit", "quota", "resource_exhausted"}
EXEC_AUTH == {"api key", "authentication", "permission", "forbidden"}
RUN_TRANSIENT == {"overloaded", "unavailable", "503", "rate limit", "quota"}
API_TRANSIENT == {"overloaded", "unavailable", "503", "rate limit", "quota"}
API_AUTH == {"api key", "authentication", "permission", "forbidden"}

OtherWords == {"boom"}
Words == EXEC_TRANSIENT \cup EXEC_AUTH \cup OtherWords

Phrases == [word : Words, upper : BOOLEAN]

RECURSIVE SeqsUpTo(_, _)
SeqsUpTo(S, n) ==
  IF n = 0 THEN {<<>>}
  ELSE LET shorter == SeqsUpTo(S, n - 1)
       IN  shorter \cup { Append(s, x) : s \in { q \in shorter : Len(q) = n - 1 }, x \in S }

Messages(n) == SeqsUpTo(Phrases, n)

\* the messages handed to the classifiers
ClassifiedMessages == Messages(MaxMsgLen)

\* the messages of the failures a run meets: every credential word, an
\* overload word all three places know, the overload word only _execute_crew
\* knows, and a word outside both vocabularies
StubWords == EXEC_AUTH \cup {"quota", "resource_exhausted"} \cup OtherWords

StubMessages(n) == SeqsUpTo([word : StubWords, upper : BOOLEAN], n)

\* str.lower()
Lower(msg) == [i \in DOMAIN msg |-> [word |-> msg[i].word, upper |-> FALSE]]

\* keyword in error_msg  (the keyword literals of the code are lower case)
Contains(msg, keyword) == \E i \in DOMAIN msg : msg[i] = [word |-> keyword, upper |-> FALSE]

\* any(keyword in error_msg for keyword in [...])
AnyKeyword(msg, keywords) == \E k \in keywords : Contains(msg, k)

\* the claim's "contains, in any letter case"
Mentions(msg, keyword) == \E i \in DOMAIN msg : msg[i].word = keyword

(***************************************************************************)
(* Error classification, as each of the three places in the code does it.  *)
(***************************************************************************)
\* variant: the credential vocabulary is tested before the overload vocabulary
ClassifyExecuteCrew_AuthFirst(msg) ==
  LET error_msg == Lower(msg)
  IN  IF AnyKeyword(error_msg, EXEC_AUTH) THEN "AuthFailure"
      ELSE IF AnyKeyword(error_msg, EXEC_TRANSIENT) THEN "Transient"
      ELSE "Fatal"

\* crew.py, _execute_crew: the if / elif / else over str(e).lower()
ClassifyExecuteCrew(msg) ==
  LET error_msg == Lower(msg)
  IN  IF AnyKeyword(error_msg, EXEC_TRANSIENT) THEN "Transient"
      ELSE IF AnyKeyword(error_msg, EXEC_AUTH) THEN "AuthFailure"
      ELSE "Fatal"

\* variant: the message is searched as it is, not lower-cased
ClassifyRun_CaseSensitive(msg) ==
  IF AnyKeyword(msg, RUN_TRANSIENT) THEN "Transient" ELSE "Fatal"

\* crew.py, run: the if / else over error_msg.lower()
ClassifyRun(msg) ==
  IF AnyKeyword(Lower(msg), RUN_TRANSIENT) THEN "Transient" ELSE "Fatal"

\* api.py, analyze_requirement: the if / elif / else over error_msg.lower()
ClassifyApi(msg) ==
  IF AnyKeyword(Lower(msg), API_TRANSIENT) THEN "Transient"
  ELSE IF AnyKeyword(Lower(msg), API_AUTH) THEN "AuthFailure"
  ELSE "Fatal"

(***************************************************************************)
(* Exceptions: the class (ValueError, or any other Exception subclass) and *)
(* the message.                                                            *)
(***************************************************************************)
ExceptionClasses == {"ValueError", "Exception"}

Errors(n) == [cls : ExceptionClasses, msg : StubMessages(n)]

\* the exceptions crew.kickoff() may raise in a run
StubErrors == Errors(MaxStubMsgLen)

NoError == [cls |-> "none", msg |-> <<>>]

\* f"Authentication error: Please check your Gemini API key. Error: {e}"
AuthMessage(msg) ==
  <<[word |-> "authentication", upper |-> TRUE], [word |-> "api key", upper |-> TRUE]>> \o msg

\* variant: the credential branch raises e itself, as the other branches do
ExecuteCrewRaises_AuthReraised(e) == e

\* the exception that leaves _execute_crew when crew.kickoff() raised e
ExecuteCrewRaises(e) ==
  LET class == ClassifyExecuteCrew(e.msg)
  IN  IF class = "Transient" THEN e
      ELSE IF class = "AuthFailure" THEN [cls |-> "ValueError", msg |-> AuthMessage(e.msg)]
      ELSE e

NoValue == [kind |-> "none"]

\* the outcome of run() when its try block raised exc: ValueError is raised
\* again, anything else becomes a returned message text
RunOutcomeOnError(exc) ==
  IF exc.cls = "ValueError" THEN [tag |-> "raise", exc |-> exc, value |-> NoValue]
  ELSE IF ClassifyRun(exc.msg) = "Transient"
       THEN [tag |-> "return", exc |-> NoError,
             value |-> [kind |-> "unavailable_text", msg |-> exc.msg]]
       ELSE [tag |-> "return", exc |-> NoError,
             value |-> [kind |-> "error_text", msg |-> exc.msg]]

NoOutcome == [tag |-> "none", exc |-> NoError, value |-> NoValue]

(***************************************************************************)
(* The crew: three tasks run by Process.sequential in list order, each     *)
(* given the outputs of its context tasks.                                 *)
(***************************************************************************)
\* variant: the research task listed before the analyze task
tasks_ResearchFirst == <<"research", "analyze", "evaluate">>

\* Crew(tasks=[analyze_task, research_task, evaluate_task], ...)
tasks == <<"analyze", "research", "evaluate">>

\* Task(context=[...])
context(task) ==
  IF task = "analyze" THEN <<>>
  ELSE IF task = "research" THEN <<"analyze">>
  ELSE <<"analyze", "research">>

NoOutput == [kind |-> "no_output"]

NoText == [lead |-> 0, core |-> 0, trail |-> 0]

\* the description of analyze_task is formatted with the business requirement;
\* the other two descriptions are fixed texts
description(task, requirement) ==
  IF task = "analyze" THEN [task |-> task, requirement |-> requirement]
  ELSE [task |-> task, requirement |-> NoText]

\* a deterministic model: the text it answers is determined by the task
\* description and the context outputs handed to it; a model that answers
\* nothing gives the blank text whatever it is asked
Invoke(answer, desc, ctx) ==
  [kind |-> "out", blank |-> (answer = "blank"), description |-> desc, ctx |-> ctx]

\* the outputs of the context tasks, as recorded when the task is run
ContextOutputs(task, recorded) == [i \in DOMAIN context(task) |-> recorded[context(task)[i]]]

\* not result or str(result).strip() == ""
IsEmptyResult(v) == v.kind = "out" /\ v.blank

(***************************************************************************)
(* Process environment and OpenSourceCrew construction.                    *)
(***************************************************************************)
EnvVars == {"GEMINI_API_KEY", "GOOGLE_API_KEY", "SERPER_API_KEY"}

\* REQUIRED_ENV_VARS of api.py
REQUIRED_ENV_VARS == {"GEMINI_API_KEY", "SERPER_API_KEY"}

\* an unset variable reads as the empty string; a set one holds a key
Unset == ""
KeyValues == {"env_key"}

\* validate_environment(): TRUE when no required variable is missing
validate_environment(e) == { v \in REQUIRED_ENV_VARS : e[v] = Unset } = {}

\* _setup_environment raises ValueError: no key given and none in the environment
SetupEnvironmentRaises(gemini_api_key, e) ==
  /\ gemini_api_key = Unset
  /\ e["GOOGLE_API_KEY"] = Unset
  /\ e["GEMINI_API_KEY"] = Unset

\* _setup_environment: a given key is written to both variables
SetupEnvironment(gemini_api_key, e) ==
  IF gemini_api_key # Unset
  THEN [e EXCEPT !["GOOGLE_API_KEY"] = gemini_api_key, !["GEMINI_API_KEY"] = gemini_api_key]
  ELSE e

KeyRequiredError ==
  [cls |-> "ValueError", msg |-> <<[word |-> "api key", upper |-> TRUE]>>]

(***************************************************************************)
(* Responses of the entry points.                                          *)
(***************************************************************************)
NoResponse == [status |-> 0, body |-> "none", detail |-> "none", result |-> NoValue]

Response(status, body, detail, result) ==
  [status |-> status, body |-> body, detail |-> detail, result |-> result]

\* str(e) of an HTTPException: "<status>: <detail>" where the framework
\* defines __str__, the empty string where it does not
HTTPExceptionError(detail, carriesDetail) ==
  [cls |-> "HTTPException", msg |-> IF carriesDetail THEN detail ELSE <<>>]

\* "Server configuration error: Missing required environment variables: ..."
EnvironmentDetail == <<[word |-> "server configuration error", upper |-> TRUE]>>

\* "AI analysis returned empty result. This might be due to API rate limits
\*  or connectivity issues."
EmptyResultDetail ==
  <<[word |-> "empty result", upper |-> TRUE], [word |-> "rate limit", upper |-> FALSE]>>

\* the except clauses of analyze_requirement
ApiExcept(exc) ==
  IF exc.cls = "ValueError" THEN Response(400, "error", "validation", NoValue)
  ELSE LET class == ClassifyApi(exc.msg)
       IN  IF class = "Transient" THEN Response(503, "error", "unavailable", NoValue)
           ELSE IF class = "AuthFailure" THEN Response(500, "error", "invalid_api_key", NoValue)
           ELSE Response(500, "error", "unexpected", NoValue)

\* analyze_requirement after crew.run(): the empty-result check, the success
\* body, and the except clauses around them
ApiAfterRun(outcome, carriesDetail) ==
  IF outcome.tag = "raise" THEN ApiExcept(outcome.exc)
  ELSE IF IsEmptyResult(outcome.value)
       THEN ApiExcept(HTTPExceptionError(EmptyResultDetail, carriesDetail))
       ELSE Response(200, "success", "completed", outcome.value)

\* app.py: the result is shown, an exception becomes st.error
AppAfterRun(outcome) ==
  IF outcome.tag = "raise" THEN Response(0, "st_error", "exception", NoValue)
  ELSE Response(0, "shown", "result", outcome.value)

\* main.py: the result is printed, an exception ends the program
CliAfterRun(outcome) ==
  IF outcome.tag = "raise" THEN Response(0, "traceback", "exception", NoValue)
  ELSE Response(0, "printed", "result", outcome.value)

AfterRun(entryPoint, outcome, carriesDetail) ==
  IF entryPoint = "api" THEN ApiAfterRun(outcome, carriesDetail)
  ELSE IF entryPoint = "app" THEN AppAfterRun(outcome)
  ELSE CliAfterRun(outcome)

(***************************************************************************)
(* Request validation of POST /analyze.                                    *)
(***************************************************************************)
\* variant: the two limits taken as exclusive
LengthOk_Exclusive(v) == StrLen(v) > MIN_LENGTH /\ StrLen(v) < MAX_LENGTH

\* Field(min_length=10, max_length=2000): checked on the text as received
LengthOk(v) == StrLen(v) >= MIN_LENGTH /\ StrLen(v) <= MAX_LENGTH

\* validate_requirement: "not v or not v.strip()" raises
RequirementIsBlank(v) == IsEmptyStr(v) \/ IsEmptyStr(Strip(v))

\* validate_requirement: the value the model field gets
validate_requirement(v) == Strip(v)

\* the request body is accepted: the field constraints hold, then the
\* validator does not raise
Accepted(v) == LengthOk(v) /\ ~RequirementIsBlank(v)

(***************************************************************************)
(* State.                                                                  *)
(***************************************************************************)
VARIABLES
  entry,                 \* the entry point serving the request: "api", "app", "cli"
  pc,                    \* "idle", "run" (crew constructed), "kickoff", "done"
  business_requirement,  \* OpenSourceCrew.business_requirement
  env,                   \* os.environ
  stub,                  \* the scripted behaviour of the model behind crew.kickoff()
  attempts,              \* number of crew.kickoff() calls made
  sleeps,                \* the delays slept between executions, in order
  idx,                   \* index in tasks of the task to run next
  outputs,               \* recorded output of each task of this execution
  log,                   \* the task invocations, in order
  raised,                \* the exception crew.kickoff() raised, if any
  outcome,               \* what run() did: returned a value or raised
  response,              \* what the entry point answered
  classifier,            \* the message under classification and the three verdicts
  submitted,             \* the text handed to the entry point
  caught,                \* the exception that reached the except clauses of run()
  runs,                  \* two OpenSourceCrew objects living in one process
  search                 \* a call of github_search_tool

vars == <<entry, pc, business_requirement, env, stub, attempts, sleeps, idx,
          outputs, log, raised, outcome, response, classifier, submitted, caught,
          runs, search>>

runVars == <<attempts, sleeps, idx, outputs, log, raised, outcome, caught>>

\* the state of the other scenarios, untouched by a request
auxVars == <<classifier, runs, search>>

\* no OpenSourceCrew object of the two-run scenario exists yet
NoRuns == [started |-> FALSE]

\* github_search_tool has not been called
NoSearch == [phase |-> "idle"]

NoOutputs == [t \in {"analyze", "research", "evaluate"} |-> NoOutput]

NoClassification == [msg |-> <<>>, execute_crew |-> "none", run |-> "none", api |-> "none"]

\* the model stub: each of the first `fails` executions fails at one of its
\* tasks; later executions succeed, answering as `answer` says
Stubs ==
  [fails : 1..MaxFails, answer : {"text"}] \cup [fails : {0}, answer : {"text", "blank"}]

Init ==
  /\ entry = "none"
  /\ pc = "idle"
  /\ business_requirement = NoText
  /\ env \in [EnvVars -> {Unset} \cup KeyValues]
  /\ stub \in Stubs
  /\ attempts = 0
  /\ sleeps = <<>>
  /\ idx = 0
  /\ outputs = NoOutputs
  /\ log = <<>>
  /\ raised = NoError
  /\ outcome = NoOutcome
  /\ response = NoResponse
  /\ classifier = NoClassification
  /\ submitted = NoText
  /\ caught = NoError
  /\ runs = NoRuns
  /\ search = NoSearch

(***************************************************************************)
(* Entry points, up to the constructed OpenSourceCrew.                     *)
(***************************************************************************)
\* OpenSourceCrew(business_requirement, gemini_api_key) called by entry point
\* ep; onRaise is the response of ep to the ValueError of _setup_environment
Construct(ep, text, gemini_api_key, onRaise) ==
  IF SetupEnvironmentRaises(gemini_api_key, env)
  THEN /\ pc' = "done"
       /\ response' = onRaise
       /\ UNCHANGED <<business_requirement, env>>
  ELSE /\ pc' = "run"
       /\ business_requirement' = text
       /\ env' = SetupEnvironment(gemini_api_key, env)
       /\ UNCHANGED response

\* POST /analyze: request validation, validate_environment, construction
ApiAnalyzeBody(raw) ==
  /\ entry' = "api"
  /\ IF ~Accepted(raw)
     THEN /\ pc' = "done"
          /\ response' = Response(422, "error", "validation", NoValue)
          /\ UNCHANGED <<business_requirement, env>>
     ELSE IF ~validate_environment(env)
     THEN /\ pc' = "done"
          /\ response' \in { ApiExcept(HTTPExceptionError(EnvironmentDetail, carriesDetail)) :
                             carriesDetail \in BOOLEAN }
          /\ UNCHANGED <<business_requirement, env>>
     ELSE Construct("api", validate_requirement(raw), env["GEMINI_API_KEY"],
                    ApiExcept(KeyRequiredError))
  /\ submitted' = raw
  /\ UNCHANGED <<stub, runVars, auxVars>>

\* the Streamlit form: "Launch Agents" pressed with the text area content
AppLaunchText(raw) ==
  /\ entry' = "app"
  /\ IF IsEmptyStr(raw)
     THEN /\ pc' = "done"
          /\ response' = Response(0, "warning", "no_blueprint", NoValue)
          /\ UNCHANGED <<business_requirement, env>>
     ELSE Construct("app", raw, Unset, Response(0, "st_error", "exception", NoValue))
  /\ submitted' = raw
  /\ UNCHANGED <<stub, runVars, auxVars>>

\* the command line: the line read by input()
CliMainLine(raw) ==
  /\ entry' = "cli"
  /\ Construct("cli", raw, Unset, Response(0, "traceback", "exception", NoValue))
  /\ submitted' = raw
  /\ UNCHANGED <<stub, runVars, auxVars>>

(***************************************************************************)
(* OpenSourceCrew.run.                                                      *)
(***************************************************************************)
\* run() up to the call of crew.kickoff() in _execute_crew: the crew is
\* built and its execution starts with the first task
RunKickoff ==
  /\ pc = "run"
  /\ pc' = "kickoff"
  /\ attempts' = attempts + 1
  /\ idx' = 1
  /\ outputs' = NoOutputs
  /\ log' = <<>>
  /\ UNCHANGED <<entry, business_requirement, env, stub, sleeps, raised,
                 outcome, response, submitted, caught, auxVars>>

\* what building the crew in run() can raise: the ValueError of _create_llm,
\* whose message ends with the message of the underlying exception, and the
\* KeyError of a lookup in the loaded configuration
BuildErrors ==
  { [cls |-> "ValueError",
     msg |-> <<[word |-> "failed to initialize", upper |-> TRUE]>> \o m] :
       m \in StubMessages(MaxStubMsgLen) }
  \cup { [cls |-> "Exception", msg |-> <<[word |-> "requirement_analyst", upper |-> FALSE]>>] }

\* run() fails before crew.kickoff() is reached: the exception goes to the
\* except clauses of run() and the entry point answers
RunBuildFailsWith(exc) ==
  /\ LET result == RunOutcomeOnError(exc)
     IN  /\ caught' = exc
         /\ pc' = "done"
         /\ outcome' = result
         /\ response' \in { AfterRun(entry, result, carriesDetail) :
                            carriesDetail \in BOOLEAN }
  /\ UNCHANGED <<entry, business_requirement, env, stub, attempts, sleeps, idx, outputs,
                 log, raised, submitted, auxVars>>

RunBuildFails == pc = "run" /\ \E exc \in BuildErrors : RunBuildFailsWith(exc)

\* this execution is one of those the stub makes fail
FailingExecution == attempts <= stub.fails

\* the task at idx answers; after the last task kickoff() returns its output,
\* _execute_crew and run() return it and the entry point answers
TaskSucceeds ==
  /\ pc = "kickoff"
  /\ ~FailingExecution \/ idx < Len(tasks)
  /\ LET task == tasks[idx]
         out == Invoke(stub.answer, description(task, business_requirement),
                       ContextOutputs(task, outputs))
         returned == [tag |-> "return", exc |-> NoError, value |-> out]
     IN  /\ outputs' = [outputs EXCEPT ![task] = out]
         /\ log' = Append(log, [task |-> task, ok |-> TRUE])
         /\ IF idx < Len(tasks)
            THEN /\ idx' = idx + 1
                 /\ UNCHANGED <<pc, outcome, response>>
            ELSE /\ idx' = 0
                 /\ pc' = "done"
                 /\ outcome' = returned
                 /\ response' \in { AfterRun(entry, returned, carriesDetail) :
                                     carriesDetail \in BOOLEAN }
  /\ UNCHANGED <<entry, business_requirement, env, stub, attempts, sleeps, raised,
                 submitted, caught, auxVars>>

\* the task at idx fails: kickoff() raises, _execute_crew classifies and
\* raises, run() re-raises or returns a message, the entry point answers
TaskFailsWith(err) ==
  /\ LET task == tasks[idx]
         result == RunOutcomeOnError(ExecuteCrewRaises(err))
     IN  /\ log' = Append(log, [task |-> task, ok |-> FALSE])
         /\ raised' = err
         /\ caught' = ExecuteCrewRaises(err)
         /\ idx' = 0
         /\ pc' = "done"
         /\ outcome' = result
         /\ response' \in { AfterRun(entry, result, carriesDetail) :
                            carriesDetail \in BOOLEAN }
  /\ UNCHANGED <<entry, business_requirement, env, stub, attempts, sleeps, outputs,
                 submitted, auxVars>>

\* a request arrives at POST /analyze with some body text
ApiAnalyze == pc = "idle" /\ \E raw \in Texts : ApiAnalyzeBody(raw)

\* the button is pressed with some text in the text area
AppLaunch == pc = "idle" /\ \E raw \in Texts : AppLaunchText(raw)

\* the program is started and some line is typed
CliMain == pc = "idle" /\ \E raw \in Texts : CliMainLine(raw)

\* a task of a failing execution fails with some exception
TaskFails == pc = "kickoff" /\ FailingExecution /\ \E err \in StubErrors : TaskFailsWith(err)

Next ==
  \/ ApiAnalyze
  \/ AppLaunch
  \/ CliMain
  \/ RunKickoff
  \/ RunBuildFails
  \/ TaskSucceeds
  \/ TaskFails

Spec == Init /\ [][Next]_vars

(***************************************************************************)
(* The classifiers on their own: a message is drawn and each of the three  *)
(* places classifies it.                                                   *)
(***************************************************************************)
InitClassify ==
  /\ entry = "none"
  /\ pc = "idle"
  /\ business_requirement = NoText
  /\ env = [v \in EnvVars |-> Unset]
  /\ stub = [fails |-> 0, answer |-> "text"]
  /\ attempts = 0
  /\ sleeps = <<>>
  /\ idx = 0
  /\ outputs = NoOutputs
  /\ log = <<>>
  /\ raised = NoError
  /\ outcome = NoOutcome
  /\ response = NoResponse
  /\ submitted = NoText
  /\ caught = NoError
  /\ runs = NoRuns
  /\ search = NoSearch
  /\ \E m \in ClassifiedMessages : classifier = [NoClassification EXCEPT !.msg = m]

mainVars == <<entry, pc, business_requirement, env, stub, runVars, response, submitted>>

\* _execute_crew classifies str(e)
ClassifyInExecuteCrew ==
  /\ classifier.execute_crew = "none"
  /\ classifier' = [classifier EXCEPT !.execute_crew = ClassifyExecuteCrew(classifier.msg)]
  /\ UNCHANGED <<mainVars, runs, search>>

\* run classifies str(e)
ClassifyInRun ==
  /\ classifier.run = "none"
  /\ classifier' = [classifier EXCEPT !.run = ClassifyRun(classifier.msg)]
  /\ UNCHANGED <<mainVars, runs, search>>

\* analyze_requirement classifies str(e)
ClassifyInApi ==
  /\ classifier.api = "none"
  /\ classifier' = [classifier EXCEPT !.api = ClassifyApi(classifier.msg)]
  /\ UNCHANGED <<mainVars, runs, search>>

NextClassify ==
  \/ ClassifyInExecuteCrew
  \/ ClassifyInRun
  \/ ClassifyInApi

SpecClassify == InitClassify /\ [][NextClassify]_vars

(***************************************************************************)
(* Two OpenSourceCrew objects in one process: each is constructed with its *)
(* own gemini_api_key (or none) and then runs its three tasks; the steps   *)
(* of the two interleave.  The model object is created without a key       *)
(* argument, so an invocation authenticates with what the process          *)
(* environment holds when it is made.                                      *)
(***************************************************************************)
RunIds == {"A", "B"}

RunKeys == {"key_a", "key_b"}

RunRequirements ==
  { [lead |-> 0, core |-> MIN_LENGTH, trail |-> 0], [lead |-> 0, core |-> MAX_LENGTH, trail |-> 0] }

NewRun ==
  [phase |-> "new", key |-> Unset, requirement |-> NoText, invocations |-> 0,
   used |-> {}, result |-> NoValue]

\* the credentials a model invocation can pick up from the environment
CredentialsInEnv(e) == { e[v] : v \in {"GEMINI_API_KEY", "GOOGLE_API_KEY"} } \ {Unset}

\* what a successful execution returns for a requirement: the evaluate
\* output over the analyze and research outputs
FinalOutput(requirement) ==
  LET analyzed == Invoke("text", description("analyze", requirement), <<>>)
      researched == Invoke("text", description("research", requirement), <<analyzed>>)
  IN  Invoke("text", description("evaluate", requirement), <<analyzed, researched>>)

InitRuns ==
  /\ entry = "none"
  /\ pc = "idle"
  /\ business_requirement = NoText
  /\ env \in { e \in [EnvVars -> {Unset} \cup RunKeys] : e["SERPER_API_KEY"] = Unset }
  /\ stub = [fails |-> 0, answer |-> "text"]
  /\ attempts = 0
  /\ sleeps = <<>>
  /\ idx = 0
  /\ outputs = NoOutputs
  /\ log = <<>>
  /\ raised = NoError
  /\ outcome = NoOutcome
  /\ response = NoResponse
  /\ classifier = NoClassification
  /\ submitted = NoText
  /\ caught = NoError
  /\ runs = [started |-> TRUE, start |-> env, run |-> [r \in RunIds |-> NewRun]]
  /\ search = NoSearch

requestVars == <<entry, pc, business_requirement, stub, runVars, response, submitted>>

\* OpenSourceCrew(requirement, key) for run r: _setup_environment refuses
\* or writes the key to the process environment
ConstructRunWith(r, key, requirement) ==
  IF SetupEnvironmentRaises(key, env)
  THEN /\ runs' = [runs EXCEPT !.run[r] = [@ EXCEPT !.phase = "refused", !.key = key,
                                                      !.requirement = requirement]]
       /\ UNCHANGED env
  ELSE /\ runs' = [runs EXCEPT !.run[r] = [@ EXCEPT !.phase = "built", !.key = key,
                                                      !.requirement = requirement]]
       /\ env' = SetupEnvironment(key, env)

ConstructRun ==
  /\ runs.started
  /\ \E r \in RunIds :
       /\ runs.run[r].phase = "new"
       /\ \E key \in {Unset} \cup RunKeys, requirement \in RunRequirements :
            ConstructRunWith(r, key, requirement)
  /\ UNCHANGED <<requestVars, classifier, search>>

\* one task of run r invokes the model; the last one ends the run
InvokeRun ==
  /\ runs.started
  /\ \E r \in RunIds :
       /\ runs.run[r].phase = "built"
       /\ \E credential \in CredentialsInEnv(env) :
            LET this == runs.run[r]
                last == this.invocations + 1 = Len(tasks)
            IN  runs' = [runs EXCEPT !.run[r] =
                           [this EXCEPT !.invocations = @ + 1,
                                        !.used = @ \cup {credential},
                                        !.phase = IF last THEN "done" ELSE "built",
                                        !.result = IF last THEN FinalOutput(this.requirement)
                                                   ELSE NoValue]]
  /\ UNCHANGED <<requestVars, env, classifier, search>>

NextRuns ==
  \/ ConstructRun
  \/ InvokeRun

SpecRuns == InitRuns /\ [][NextRuns]_vars

(***************************************************************************)
(* github_search_tool, in crew.py and in tools/custom_tool.py.  An         *)
(* exception is described by the set of classes it is an instance of; the  *)
(* except clauses of a tool are tried in order.                            *)
(***************************************************************************)
SearchTools == {"crew", "custom"}

Queries == {"crm", "orm"}

\* requests.exceptions.Timeout is a RequestException
TimeoutClasses == {"Timeout", "RequestException", "Exception"}

\* ConnectionError, and the HTTPError of raise_for_status()
RequestExceptionClasses == {"RequestException", "Exception"}

\* what response.json() raises on an undecodable body, by library version:
\* requests' JSONDecodeError (a RequestException and a json.JSONDecodeError),
\* json.JSONDecodeError itself, or a decoder error that is neither
DecodeErrorClasses ==
  { {"RequestException", "JSONDecodeError", "Exception"},
    {"JSONDecodeError", "Exception"},
    {"Exception"} }

\* TypeError of "'organic' in results" on a null body; AttributeError of
\* item.get on an entry that is not an object
OtherErrorClasses == {"Exception"}

\* the decoded body: null, or an object whose "organic" is absent or a list
\* of n entries, possibly with an entry that is not an object
Bodies ==
  { [shape |-> "null", organic |-> FALSE, n |-> 0, badItem |-> FALSE],
    [shape |-> "object", organic |-> FALSE, n |-> 0, badItem |-> FALSE] }
  \cup [shape : {"object"}, organic : {TRUE}, n : {0}, badItem : {FALSE}]
  \cup [shape : {"object"}, organic : {TRUE}, n : 1..MaxResults, badItem : BOOLEAN]

NoBody == [shape |-> "none", organic |-> FALSE, n |-> 0, badItem |-> FALSE]

\* what the request meets
Behaviours ==
  [kind : {"no_response", "connection_error", "http_error"}, raises : {{}}, body : {NoBody}]
  \cup [kind : {"undecodable"}, raises : DecodeErrorClasses, body : {NoBody}]
  \cup [kind : {"json"}, raises : {{}}, body : Bodies]

SearchReturn(value) == [phase |-> "returned", value |-> value, classes |-> {}]
SearchRaise(classes) == [phase |-> "raised", value |-> "none", classes |-> classes]
SearchBlocked == [phase |-> "blocked", value |-> "none", classes |-> {}]

\* the try block of crew.py: requests.post(..., timeout=30),
\* raise_for_status(), response.json(), the formatting of the entries
TryCrew(b) ==
  IF b.kind = "no_response" THEN SearchRaise(TimeoutClasses)
  ELSE IF b.kind \in {"connection_error", "http_error"} THEN SearchRaise(RequestExceptionClasses)
  ELSE IF b.kind = "undecodable" THEN SearchRaise(b.raises)
  ELSE IF b.body.shape = "null" THEN SearchRaise(OtherErrorClasses)
  ELSE IF b.body.organic /\ b.body.n > 0
       THEN IF b.body.badItem THEN SearchRaise(OtherErrorClasses)
            ELSE SearchReturn("formatted_results")
       ELSE SearchReturn("no_projects_found")

\* the try block of custom_tool.py: requests.request("POST", ...) without a
\* timeout, raise_for_status(), response.json(), the extraction of the entries
TryCustom(b) ==
  IF b.kind = "no_response" THEN SearchBlocked
  ELSE IF b.kind \in {"connection_error", "http_error"} THEN SearchRaise(RequestExceptionClasses)
  ELSE IF b.kind = "undecodable" THEN SearchRaise(b.raises)
  ELSE IF b.body.shape = "null" THEN SearchRaise(OtherErrorClasses)
  ELSE IF b.body.organic /\ b.body.n > 0
       THEN IF b.body.badItem THEN SearchRaise(OtherErrorClasses)
            ELSE SearchReturn("result_list")
       ELSE SearchReturn("no_projects_found")

\* the except clauses of crew.py
HandlersCrew == <<"Timeout", "RequestException", "JSONDecodeError", "Exception">>

\* the except clauses of custom_tool.py
HandlersCustom == <<"RequestException", "JSONDecodeError">>

\* the first except clause that matches returns its error string; with none
\* matching the exception leaves the tool
Except(handlers, tried) ==
  IF tried.phase # "raised" THEN tried
  ELSE LET matching == { i \in DOMAIN handlers : handlers[i] \in tried.classes }
       IN  IF matching = {} THEN tried ELSE SearchReturn("error_string")

\* github_search_tool(query) of the given file
github_search_tool(tool, api_key, b) ==
  IF api_key = Unset THEN SearchReturn("error_string")
  ELSE IF tool = "crew" THEN Except(HandlersCrew, TryCrew(b))
  ELSE Except(HandlersCustom, TryCustom(b))

InitSearch ==
  /\ entry = "none"
  /\ pc = "idle"
  /\ business_requirement = NoText
  /\ env \in { e \in [EnvVars -> {Unset} \cup KeyValues] :
                 e["GEMINI_API_KEY"] = Unset /\ e["GOOGLE_API_KEY"] = Unset }
  /\ stub = [fails |-> 0, answer |-> "text"]
  /\ attempts = 0
  /\ sleeps = <<>>
  /\ idx = 0
  /\ outputs = NoOutputs
  /\ log = <<>>
  /\ raised = NoError
  /\ outcome = NoOutcome
  /\ response = NoResponse
  /\ classifier = NoClassification
  /\ submitted = NoText
  /\ caught = NoError
  /\ runs = NoRuns
  /\ search \in [phase : {"calling"}, tool : SearchTools, query : Queries,
                 behaviour : Behaviours, value : {"none"}, classes : {{}}]

SearchCall(tool) ==
  /\ search.phase = "calling"
  /\ search.tool = tool
  /\ LET done == github_search_tool(tool, env["SERPER_API_KEY"], search.behaviour)
     IN  search' = [search EXCEPT !.phase = done.phase, !.value = done.value,
                                  !.classes = done.classes]
  /\ UNCHANGED <<requestVars, env, classifier, runs>>

\* the agent calls the tool defined in crew.py
SearchCrew == SearchCall("crew")

\* the tool defined in tools/custom_tool.py is called
SearchCustom == SearchCall("custom")

NextSearch ==
  \/ SearchCrew
  \/ SearchCustom

SpecSearch == InitSearch /\ [][NextSearch]_vars

(***************************************************************************)
(* Vocabulary of the properties.                                           *)
(***************************************************************************)
TransientVocabulary ==
  {"overloaded", "unavailable", "503", "rate limit", "quota", "resource_exhausted"}
AuthVocabulary == {"api key", "authentication", "permission", "forbidden"}

MentionsAny(msg, vocabulary) == \E k \in vocabulary : Mentions(msg, k)

TransientFlavoured(msg) == MentionsAny(msg, TransientVocabulary)
AuthFlavoured(msg) == MentionsAny(msg, AuthVocabulary) /\ ~MentionsAny(msg, TransientVocabulary)
FatalFlavoured(msg) == ~MentionsAny(msg, AuthVocabulary) /\ ~MentionsAny(msg, TransientVocabulary)

\* the run is over and its pipeline execution failed
RunFailed == pc = "done" /\ raised # NoError

\* the run is over and returned what the last task produced
RunSucceeded == pc = "done" /\ raised = NoError /\ caught = NoError /\ outcome.tag = "return"

(***************************************************************************)
(* Properties.                                                             *)
(***************************************************************************)
\* C1: when the model fails transiently on the first two executions and
\* succeeds on the third, run() returns the third execution's output and has
\* slept exactly twice, 30s and then 60s.
C1_RetryThenSuccess ==
  (RunFailed /\ stub.fails = 2 /\ TransientFlavoured(raised.msg))
    => (/\ outcome.tag = "return"
        /\ outcome.value.kind = "out"
        /\ attempts = 3
        /\ sleeps = <<30, 60>>)

\* C2: when every execution fails transiently, the pipeline is executed
\* exactly three times and run() then fails (raises) instead of returning.
C2_RetryExhaustion ==
  (RunFailed /\ stub.fails >= 3 /\ TransientFlavoured(raised.msg))
    => (attempts = 3 /\ outcome.tag = "raise")

\* C3: an auth-flavoured failure makes run() raise the authentication
\* ValueError after exactly one pipeline execution and without any sleep.
C3_AuthNotRetried ==
  (RunFailed /\ AuthFlavoured(raised.msg))
    => (/\ outcome.tag = "raise"
        /\ outcome.exc.cls = "ValueError"
        /\ Mentions(outcome.exc.msg, "authentication")
        /\ attempts = 1
        /\ sleeps = <<>>)

C3_Witness ==
  /\ RunFailed
  /\ AuthFlavoured(raised.msg)
  /\ raised.cls = "Exception"
  /\ Mentions(raised.msg, "forbidden")
  /\ outcome.tag = "raise"
  /\ attempts = 1

\* C4: a failure outside both vocabularies makes run() fail to its caller
\* (raise, not return a text) after exactly one pipeline execution.
C4_FatalFailsRun ==
  (RunFailed /\ FatalFlavoured(raised.msg))
    => (outcome.tag = "raise" /\ attempts = 1)

\* C5: a POST /analyze whose pipeline execution fails transiently is
\* answered with status 503, never with a 200 success.
C5_TransientIs503 ==
  (entry = "api" /\ RunFailed /\ TransientFlavoured(raised.msg))
    => response.status = 503

\* C6: a POST /analyze whose pipeline execution fails with an auth-flavoured
\* error is answered with status 500.
C6_AuthIs500 ==
  (entry = "api" /\ RunFailed /\ AuthFlavoured(raised.msg))
    => response.status = 500

\* C7: a message containing a word of the transient vocabulary, in any
\* letter case, is classified Transient by _execute_crew, by run and by the
\* /analyze handler.
C7_TransientEverywhere ==
  TransientFlavoured(classifier.msg)
    => (/\ classifier.execute_crew \in {"none", "Transient"}
        /\ classifier.run \in {"none", "Transient"}
        /\ classifier.api \in {"none", "Transient"})

\* C8 (as stated): a message containing "forbidden", in any letter case, is
\* classified AuthFailure by _execute_crew and by the /analyze handler, also
\* when it contains a word of the transient vocabulary.
C8_ForbiddenAlwaysAuth ==
  Mentions(classifier.msg, "forbidden")
    => (/\ classifier.execute_crew \in {"none", "AuthFailure"}
        /\ classifier.api \in {"none", "AuthFailure"})

\* C8 (amended): a message containing "forbidden", in any letter case, is
\* classified AuthFailure exactly when it contains no word of the transient
\* vocabulary of the classifying place (six words in _execute_crew, the five
\* without "resource_exhausted" in the /analyze handler), and Transient when it
\* does: the transient check is made first.
C8_ForbiddenAuthUnlessTransient ==
  Mentions(classifier.msg, "forbidden")
    => (/\ classifier.execute_crew # "none"
             => classifier.execute_crew =
                  IF MentionsAny(classifier.msg, TransientVocabulary)
                  THEN "Transient" ELSE "AuthFailure"
        /\ classifier.api # "none"
             => classifier.api =
                  IF MentionsAny(classifier.msg, TransientVocabulary \ {"resource_exhausted"})
                  THEN "Transient" ELSE "AuthFailure")

C8_Witness ==
  /\ Mentions(classifier.msg, "forbidden")
  /\ Mentions(classifier.msg, "quota")
  /\ classifier.execute_crew = "Transient"
  /\ classifier.api = "Transient"

\* C9: the tasks of an execution are invoked in the order analyze, research,
\* evaluate; research only after analyze completed, evaluate only after both
\* completed; and what a successful run() returns is the output of evaluate,
\* the model's answer to the evaluate description and the recorded outputs of
\* analyze and research.
C9_StageOrdering ==
  /\ \A i \in DOMAIN log :
       /\ i <= 3
       /\ log[i].task = <<"analyze", "research", "evaluate">>[i]
       /\ log[i].task = "research"
            => \E j \in 1..(i - 1) : log[j] = [task |-> "analyze", ok |-> TRUE]
       /\ log[i].task = "evaluate"
            => /\ \E j \in 1..(i - 1) : log[j] = [task |-> "analyze", ok |-> TRUE]
               /\ \E j \in 1..(i - 1) : log[j] = [task |-> "research", ok |-> TRUE]
  /\ RunSucceeded
       => /\ outputs["analyze"] # NoOutput
          /\ outputs["research"] # NoOutput
          /\ outcome.value = outputs["evaluate"]
          /\ outcome.value =
               Invoke(stub.answer, description("evaluate", business_requirement),
                      <<outputs["analyze"], outputs["research"]>>)

C9_Witness ==
  /\ RunSucceeded
  /\ Len(log) = 3
  /\ log[3] = [task |-> "evaluate", ok |-> TRUE]
  /\ outcome.value.kind = "out"

\* C10: the business requirement held by a constructed OpenSourceCrew, from
\* whichever entry point, has no leading or trailing whitespace and a length
\* of 10 to 2000 characters.
C10_AcceptedRequirement ==
  (pc \in {"run", "kickoff"} \/ (pc = "done" /\ attempts > 0))
    => (/\ business_requirement = Strip(business_requirement)
        /\ StrLen(business_requirement) >= 10
        /\ StrLen(business_requirement) <= 2000)

\* the request body of a POST /analyze was refused by validation
ApiRejected == entry = "api" /\ response.status = 422

\* C11: POST /analyze refuses a business_requirement of length 9, accepts
\* length 10 and length 2000, refuses length 2001; a non-blank text is
\* accepted exactly when its length, as received, is within 10..2000.
C11_LengthBoundaries ==
  entry = "api"
    => (/\ StrLen(submitted) = 9 => ApiRejected
        /\ StrLen(submitted) = 2001 => ApiRejected
        /\ (submitted.core > 0 /\ StrLen(submitted) \in {10, 2000}) => ~ApiRejected
        /\ submitted.core > 0
             => (~ApiRejected <=> (StrLen(submitted) >= 10 /\ StrLen(submitted) <= 2000)))

C11_Witness ==
  /\ entry = "api"
  /\ StrLen(submitted) = 10
  /\ submitted.core > 0
  /\ pc = "run"
  /\ response.status # 422

\* C12: every model invocation of a run constructed with a key uses that
\* key; whether constructing a run without a key succeeds is decided by the
\* environment the process started with, not by another run; two finished
\* runs of the same requirement have the same final output.
C12_NoSharedState ==
  runs.started
    => (/\ \A r \in RunIds :
             LET this == runs.run[r]
             IN  /\ this.key # Unset => this.used \subseteq {this.key}
                 /\ (this.key = Unset /\ this.phase # "new")
                      => (this.phase # "refused" <=> CredentialsInEnv(runs.start) # {})
        /\ \A r, q \in RunIds :
             (/\ runs.run[r].phase = "done"
              /\ runs.run[q].phase = "done"
              /\ runs.run[r].requirement = runs.run[q].requirement)
               => runs.run[r].result = runs.run[q].result)

\* C13: github_search_tool, in crew.py and in tools/custom_tool.py, returns
\* a value for every query and never raises; without SERPER_API_KEY, on a
\* timeout, a network or HTTP failure, an undecodable response or any other
\* exception during the request, what it returns is an error string.
C13_SearchNeverThrows ==
  /\ search.phase \in {"idle", "calling", "returned"}
  /\ (search.phase = "returned"
        /\ \/ env["SERPER_API_KEY"] = Unset
           \/ search.behaviour.kind # "json"
           \/ search.behaviour.body.shape = "null"
           \/ search.behaviour.body.badItem)
       => search.value = "error_string"

\* C14: when crew.run() returns an empty or whitespace-only result, POST
\* /analyze answers with status 500 and the detail "AI analysis returned
\* empty result..."; the except clauses of the handler do not turn it into
\* another answer.
C14_EmptyResultIs500 ==
  (entry = "api" /\ RunSucceeded /\ IsEmptyResult(outcome.value))
    => (response.status = 500 /\ response.detail = "empty_result")

\* C15: run() raises nothing but ValueError: an exception reaching its except
\* clauses is raised again unchanged when it is a ValueError, and otherwise
\* becomes a returned text, the "Service Temporarily Unavailable" text when
\* the message contains, in any letter case, "overloaded", "unavailable",
\* "503", "rate limit" or "quota", and the generic error text otherwise.
C15_RunRaisesOnlyValueError ==
  /\ outcome.tag = "raise" => outcome.exc.cls = "ValueError"
  /\ RunFailed => caught # NoError
  /\ caught # NoError
       => IF caught.cls = "ValueError"
          THEN outcome.tag = "raise" /\ outcome.exc = caught
          ELSE /\ outcome.tag = "return"
               /\ outcome.value.msg = caught.msg
               /\ outcome.value.kind =
                    IF MentionsAny(caught.msg, {"overloaded", "unavailable", "503",
                                                "rate limit", "quota"})
                    THEN "unavailable_text" ELSE "error_text"

C15_Witness ==
  /\ RunFailed
  /\ caught.cls = "Exception"
  /\ caught.msg = <<[word |-> "quota", upper |-> TRUE]>>
  /\ outcome.tag = "return"
  /\ outcome.value.kind = "unavailable_text"

====
